---- MODULE Spec2Model ----
(***************************************************************************)
(* Model of kpi_computation/standard/app/kpi_calculator.py: the Prometheus *)
(* exporter that derives per-slice throughput, packet loss, latency and    *)
(* jitter from a Thanos/Prometheus backend and republishes them as gauges. *)
(*                                                                         *)
(* Python values are modelled as tagged records (None, str, float, list,   *)
(* dict); a str is the tuple of its characters, a float is an exact        *)
(* decimal m * 10^e (or nan / inf).  A call returns [exc, val]: exc is     *)
(* "none" or the name of the exception that propagates out of it.          *)
(***************************************************************************)
EXTENDS Integers, Sequences, FiniteSets, TLC

(* ------------------------------ bounds -------------------------------- *)

\* rows in one query result
MaxRows == 2
\* rows in one result of the discovery query (slices in one cycle)
MaxSlices == 2
\* non-empty query results the backend delivers in one behaviour of main()
MaxData == 4

\* the same budget for the behaviours checked under fairness
LiveData == 3

(* --------------------------- Python values ---------------------------- *)

None == [t |-> "None"]

Str(s) == [t |-> "str", s |-> s]

Num(m, e) == [t |-> "float", k |-> "num", m |-> m, e |-> e]

NaN == [t |-> "float", k |-> "nan", m |-> 0, e |-> 0]

Inf == [t |-> "float", k |-> "inf", m |-> 1, e |-> 0]

List(items) == [t |-> "list", items |-> items]

\* a JSON object: items is a sequence of <<key, value>>, key a literal string
Dict(items) == [t |-> "dict", items |-> items]

Ok(v) == [exc |-> "none", val |-> v]

Raise(e) == [exc |-> e, val |-> None]

\* an exception ends the computation: F, the rest of it, runs on the value of
\* the part r before it only when r raised nothing
Try(r, F(_)) == IF r.exc = "none" THEN F(r.val) ELSE r

Range(s) == {s[n] : n \in DOMAIN s}

\* v[key] for a literal str key
GetItem(v, key) ==
  IF v.t = "dict"
  THEN IF \E n \in DOMAIN v.items : v.items[n][1] = key
       THEN Ok(v.items[CHOOSE n \in DOMAIN v.items : v.items[n][1] = key][2])
       ELSE Raise("KeyError")
  ELSE Raise("TypeError")

\* v[n] for a literal int index n >= 0 (Python counts from 0)
GetIndex(v, n) ==
  IF v.t = "list"
  THEN IF n + 1 \in DOMAIN v.items THEN Ok(v.items[n + 1]) ELSE Raise("IndexError")
  ELSE IF v.t = "dict" THEN Raise("KeyError")
  ELSE IF v.t = "str"
  THEN IF n + 1 \in DOMAIN v.s THEN Ok(Str(<<v.s[n + 1]>>)) ELSE Raise("IndexError")
  ELSE Raise("TypeError")

(* ------------------------------ float() ------------------------------- *)

Digits == {"0", "1", "2", "3", "4", "5", "6", "7", "8", "9"}

DigitVal(c) ==
  CASE c = "0" -> 0 [] c = "1" -> 1 [] c = "2" -> 2 [] c = "3" -> 3 [] c = "4" -> 4
    [] c = "5" -> 5 [] c = "6" -> 6 [] c = "7" -> 7 [] c = "8" -> 8 [] c = "9" -> 9

RECURSIVE Normalize(_, _)
\* the decimal m * 10^e without trailing zeros in m
Normalize(m, e) ==
  IF m = 0 THEN Num(0, 0)
  ELSE IF m % 10 = 0 THEN Normalize(m \div 10, e + 1)
  ELSE Num(m, e)

RECURSIVE Pow10(_)
Pow10(n) == IF n = 0 THEN 1 ELSE 10 * Pow10(n - 1)

RECURSIVE ScanDigits(_, _, _, _)
\* reads the unsigned decimal literal cs from position n on: acc is the digits
\* read so far, frac the number of digits after the point (-1 before the point);
\* the result is <<m, e>> or <<>> when cs is no decimal literal
ScanDigits(cs, n, acc, frac) ==
  IF n > Len(cs) THEN <<acc, IF frac < 0 THEN 0 ELSE 0 - frac>>
  ELSE IF cs[n] \in Digits
  THEN ScanDigits(cs, n + 1, 10 * acc + DigitVal(cs[n]), IF frac < 0 THEN frac ELSE frac + 1)
  ELSE IF cs[n] = "." /\ frac < 0 THEN ScanDigits(cs, n + 1, acc, 0)
  ELSE <<>>

HasDigit(cs) == \E n \in DOMAIN cs : cs[n] \in Digits

\* float(str) on the characters cs
ParseFloat(cs) ==
  LET signed == cs # <<>> /\ cs[1] \in {"-", "+"}
      neg == cs # <<>> /\ cs[1] = "-"
      body == IF signed THEN Tail(cs) ELSE cs
      scan == ScanDigits(body, 1, 0, -1)
  IN  IF body \in {<<"N", "a", "N">>, <<"n", "a", "n">>} THEN Ok(NaN)
      ELSE IF body \in {<<"I", "n", "f">>, <<"i", "n", "f">>}
      THEN Ok([Inf EXCEPT !.m = IF neg THEN -1 ELSE 1])
      ELSE IF ~HasDigit(body) \/ scan = <<>> THEN Raise("ValueError")
      ELSE Ok(Normalize(IF neg THEN 0 - scan[1] ELSE scan[1], scan[2]))

\* float(v)
float(v) ==
  IF v.t = "float" THEN Ok(v)
  ELSE IF v.t = "str" THEN ParseFloat(v.s)
  ELSE Raise("TypeError")

\* m / 10^k rounded to an integer, ties to even (round() decides a tie by the
\* binary value of the float; no value the backend gives below is a tie)
RoundHalfEven(m, k) ==
  LET p == Pow10(k)
      q == m \div p
      r == m % p
  IN  IF 2 * r < p THEN q
      ELSE IF 2 * r > p THEN q + 1
      ELSE IF q % 2 = 0 THEN q ELSE q + 1

\* round(value / 10 ** 6, 6)
value_mbits(value) ==
  IF value.k # "num" THEN value
  ELSE IF value.e >= 0 THEN Normalize(value.m, value.e - 6)
  ELSE Normalize(RoundHalfEven(value.m, 0 - value.e), -6)

(* -------------------------- query_prometheus --------------------------- *)

\* The outcome of requests.get(url + '/api/v1/query', params): err names the
\* requests exception it raised ("none": a response came back); body is the
\* response body, NotJson when r.json() cannot decode it.
NotJson == [t |-> "notjson"]

Http(err, body) == [err |-> err, body |-> body]

\* the exceptions the two except clauses of query_prometheus catch
Caught == {"KeyError", "IndexError", "ValueError"}

query_prometheus(http) ==
  IF http.err # "none" THEN Ok(List(<<>>))
  ELSE IF http.body = NotJson THEN Ok(List(<<>>))
  ELSE LET except(r) == IF r.exc = "none" THEN Ok(r.val)
                         ELSE IF r.exc \in Caught THEN Ok(List(<<>>))
                         ELSE Raise(r.exc)
       IN  except(Try(GetItem(http.body, "data"), LAMBDA d : GetItem(d, "result")))

(* ------------------------------ derivers ------------------------------ *)

TIME_RANGE == <<"5", "s">>

\* what a deriver call comes to: the exception that leaves it ("none": it
\* returned val) and the queries it sent to the backend, in order
Ret(exc, val, queries) == [exc |-> exc, val |-> val, queries |-> queries]

\* a deriver that sent the queries and then came to r
Sent(queries, r) == Ret(r.exc, r.val, queries)

\* result["metric"][label]
RowLabel(row, label) ==
  Try(GetItem(row, "metric"), LAMBDA metric : GetItem(metric, label))

\* float(result["value"][1])
RowValue(row) ==
  Try(Try(GetItem(row, "value"), LAMBDA value : GetIndex(value, 1)), float)

\* d[key] = value on a dict built by the program: items is the sequence of
\* <<key, value>> in insertion order, a key that is present keeps its place
DictSet(items, key, value) ==
  IF \E n \in DOMAIN items : items[n][1] = key
  THEN [n \in DOMAIN items |-> IF items[n][1] = key THEN <<key, value>> ELSE items[n]]
  ELSE Append(items, <<key, value>>)

\* key in d
DictHas(d, key) == \E n \in DOMAIN d.items : d.items[n][1] = key

\* d[key], for a key that is in d
DictGet(d, key) == d.items[CHOOSE n \in DOMAIN d.items : d.items[n][1] = key][2]

\* `if results:` on what query_prometheus returned
Truthy(results) == results.items # <<>>

direction_mapping ==
  [uplink |-> "outdatavolumen3upf", downlink |-> "indatavolumen3upf"]

direction_mapping_packets == [uplink |-> "ul_packets", downlink |-> "dl_packets"]

direction_mapping_dropped ==
  [uplink |-> "ul_packets_dropped", downlink |-> "dl_packets_dropped"]

\* the query strings, as the parts the f-strings are built from
throughput_query(snssai, direction) ==
  [kpi |-> "throughput", metric |-> direction_mapping[direction],
   label |-> snssai, range |-> TIME_RANGE]

packet_loss_query(snssai, direction) ==
  [kpi |-> "packet_loss", metric |-> direction_mapping_packets[direction],
   label |-> snssai, range |-> TIME_RANGE]

latency_query(slice_label_value) ==
  [kpi |-> "latency", metric |-> "avg_over_time", label |-> slice_label_value,
   range |-> TIME_RANGE]

jitter_query(slice_label_value) ==
  [kpi |-> "jitter", metric |-> "stddev_over_time", label |-> slice_label_value,
   range |-> TIME_RANGE]

active_query ==
  [kpi |-> "active", metric |-> "sm_seid_session", label |-> None, range |-> TIME_RANGE]

RECURSIVE throughput_loop(_, _, _)
\* the for loop of lines 83-86 from row n on, throughput_per_seid being acc
throughput_loop(rows, n, acc) ==
  IF n > Len(rows) THEN Ok(Dict(acc))
  ELSE Try(RowLabel(rows[n], "seid"), LAMBDA seid :
         Try(RowValue(rows[n]), LAMBDA value :
           throughput_loop(rows, n + 1, DictSet(acc, seid, value))))

\* the value a deriver returns for a direction that is in no mapping
throughput_invalid_direction == None

get_slice_throughput_per_seid_and_direction(snssai, direction, http) ==
  IF direction \notin DOMAIN direction_mapping
  THEN Ret("none", throughput_invalid_direction, <<>>)
  ELSE Sent(<<throughput_query(snssai, direction)>>,
            Try(query_prometheus(http), LAMBDA results :
              IF Truthy(results) THEN throughput_loop(results.items, 1, <<>>)
              ELSE Ok(Dict(<<>>))))

\* a slip: the last row instead of the first
first_row_last(snssai, results) ==
  IF Truthy(results)
  THEN Try(RowValue(results.items[Len(results.items)]),
           LAMBDA value : Ok(Dict(<<<<snssai, value>>>>)))
  ELSE Ok(Dict(<<>>))

\* lines 128-131 (and 154-156, 164-166): the first row's value under key snssai
first_row(snssai, results) ==
  IF Truthy(results)
  THEN Try(RowValue(results.items[1]), LAMBDA value : Ok(Dict(<<<<snssai, value>>>>)))
  ELSE Ok(Dict(<<>>))

get_slice_packet_loss(snssai, direction, http) ==
  IF direction \notin DOMAIN direction_mapping_packets
  THEN Ret("none", Dict(<<>>), <<>>)
  ELSE Sent(<<packet_loss_query(snssai, direction)>>,
            Try(query_prometheus(http), LAMBDA results : first_row(snssai, results)))

\* a slip: snssai.replace('-', '_', 1), the first hyphen only
replace_first(snssai) ==
  Str([n \in DOMAIN snssai.s |->
         IF snssai.s[n] = "-" /\ \A k \in 1..(n - 1) : snssai.s[k] # "-"
         THEN "_" ELSE snssai.s[n]])

\* snssai.replace('-', '_')
replace(snssai) ==
  Str([n \in DOMAIN snssai.s |-> IF snssai.s[n] = "-" THEN "_" ELSE snssai.s[n]])

\* lines 140-156: the latency query and latency_per_slice
latency_part(snssai, http) ==
  Sent(<<latency_query(replace(snssai))>>,
       Try(query_prometheus(http), LAMBDA results : first_row(snssai, results)))

\* lines 158-166: the jitter query and jitter_per_slice
jitter_part(snssai, http) ==
  Sent(<<jitter_query(replace(snssai))>>,
       Try(query_prometheus(http), LAMBDA results : first_row(snssai, results)))

\* the whole of get_slice_latency_and_jitter: val is the pair it returns
get_slice_latency_and_jitter(snssai, httpLatency, httpJitter) ==
  LET both(l, j) ==
        IF l.exc # "none" THEN l
        ELSE IF j.exc # "none" THEN Ret(j.exc, None, l.queries \o j.queries)
        ELSE Ret("none", <<l.val, j.val>>, l.queries \o j.queries)
  IN  both(latency_part(snssai, httpLatency), jitter_part(snssai, httpJitter))

RECURSIVE snssai_loop(_, _, _)
\* the list comprehension of line 179 from row n on
snssai_loop(rows, n, acc) ==
  IF n > Len(rows) THEN Ok(List(acc))
  ELSE Try(RowLabel(rows[n], "snssai"),
           LAMBDA label : snssai_loop(rows, n + 1, Append(acc, label)))

get_active_snssais(http) ==
  Sent(<<active_query>>,
       Try(query_prometheus(http), LAMBDA results : snssai_loop(results.items, 1, <<>>)))

(* ------------------------------ exporter ------------------------------ *)

\* a slip: the gauge set to the rounded Mbps figure that is logged
throughput_gauge_mbits(value) == value_mbits(value)

\* the value SLICE_THROUGHPUT is set to (line 204)
throughput_gauge_value(value) == value

\* one Gauge.labels(...).set(value)
Write(gauge, labels, value) == [gauge |-> gauge, labels |-> labels, value |-> value]

export_to_prometheus(snssai, seid, direction, value) ==
  <<Write("slice_throughput", <<snssai, seid, direction>>, throughput_gauge_value(value))>>

export_packet_loss_to_prometheus(snssai, direction, value) ==
  <<Write("slice_packet_loss_ratio", <<snssai, direction>>, value)>>

\* a slip: line 213 left out
export_latency_only(snssai, latency, jitter) ==
  <<Write("slice_latency_seconds", <<snssai>>, latency)>>

export_latency_jitter_to_prometheus(snssai, latency, jitter) ==
  <<Write("slice_latency_seconds", <<snssai>>, latency),
    Write("slice_jitter_seconds", <<snssai>>, jitter)>>

Gauges ==
  {"slice_throughput", "slice_packet_loss_ratio", "slice_latency_seconds",
   "slice_jitter_seconds"}

\* the four Gauge objects of lines 29-32, no label combination set yet
EmptyRegistry == [g \in Gauges |-> <<>>]

\* a slip: the gauge is cleared before the write
SetCleared(reg, w) == [reg EXCEPT ![w.gauge] = (w.labels :> w.value)]

\* the registry after one write: the label combination is added or overwritten
Set(reg, w) ==
  [reg EXCEPT ![w.gauge] =
     [k \in DOMAIN reg[w.gauge] \cup {w.labels} |->
        IF k = w.labels THEN w.value ELSE reg[w.gauge][k]]]

RECURSIVE SetAll(_, _)
\* the registry after the writes ws, in order
SetAll(reg, ws) == IF ws = <<>> THEN reg ELSE SetAll(Set(reg, Head(ws)), Tail(ws))

RECURSIVE Flatten(_)
Flatten(ss) == IF ss = <<>> THEN <<>> ELSE Head(ss) \o Flatten(Tail(ss))

\* d.items() of line 227 / 233: the pairs, or AttributeError when d is no dict
items(dct) == IF dct.t = "dict" THEN Ok(dct.items) ELSE Raise("AttributeError")

(* ------------------------------- backend ------------------------------ *)

SliceA == <<"1", "-", "1">>

SliceB == <<"2", "-", "2">>

Timestamp == Num(0, 0)

\* a well-formed row {"metric": {name: label}, "value": [ts, "value"]}
Row(name, label, value) ==
  Dict(<< <<"metric", Dict(<< <<name, Str(label)>> >>)>>,
          <<"value", List(<<Timestamp, Str(value)>>)>> >>)

\* rows that are not of that shape
RowNoLabel == Dict(<< <<"metric", Dict(<<>>)>>, <<"value", List(<<Timestamp, Str(<<"1">>)>>)>> >>)

RowNoMetric == Dict(<< <<"value", List(<<Timestamp, Str(<<"1">>)>>)>> >>)

RowNoValue(name, label) == Dict(<< <<"metric", Dict(<< <<name, Str(label)>> >>)>> >>)

RowShortValue(name, label) ==
  Dict(<< <<"metric", Dict(<< <<name, Str(label)>> >>)>>, <<"value", List(<<Timestamp>>)>> >>)

RowNullValue(name, label) ==
  Dict(<< <<"metric", Dict(<< <<name, Str(label)>> >>)>>,
          <<"value", List(<<Timestamp, None>>)>> >>)

\* a response body {"status": "success", "data": {"result": rows}}
Body(rows) ==
  Dict(<< <<"status", Str(<<"o", "k">>)>>, <<"data", Dict(<< <<"result", List(rows)>> >>)>> >>)

\* bodies that are JSON and have no data.result
BodyError == Dict(<< <<"status", Str(<<"e", "r", "r">>)>> >>)

BodyNoResult == Dict(<< <<"data", Dict(<<>>)>> >>)

BodyNullData == Dict(<< <<"data", None>> >>)

BodyListData == Dict(<< <<"data", List(<<>>)>> >>)

BodyTopList == List(<<>>)

BodyTopNull == None

BodyTopString == Str(<<"e", "r", "r">>)

\* every way a query can fail to bring rows
Failures ==
  {Http("ConnectionError", NotJson), Http("Timeout", NotJson), Http("none", NotJson)}
    \cup {Http("none", b) : b \in {BodyError, BodyNoResult, BodyNullData, BodyListData,
                                   BodyTopList, BodyTopNull, BodyTopString}}

\* the sequences over S of length 0..n
SeqUpTo(S, n) == UNION {[1..k -> S] : k \in 0..n}

Answers(rows, n) == {Http("none", Body(r)) : r \in SeqUpTo(rows, n)}

\* did query_prometheus return at least one row?
HasRows(results) == results.exc = "none" /\ results.val.items # <<>>

\* the rows the backend may answer each kind of query of a cycle with
ActiveRows == {Row("snssai", SliceA, <<"1">>), Row("snssai", SliceB, <<"1">>), RowNoLabel}

ThroughputRows ==
  {Row("seid", <<"7">>, <<"8", "0", "0", "0">>),
   Row("seid", <<"9">>, <<"1", "5", "0", "0", "0", "0", "0", ".", "4">>),
   Row("seid", <<"7">>, <<"a", "b", "c">>)}

PacketLossRows ==
  {Row("instance", <<"u">>, <<"0">>), Row("instance", <<"u">>, <<"0", ".", "2", "5">>),
   RowNoValue("instance", <<"u">>)}

LatencyRows == {Row("slice_id", <<"x">>, <<"0", ".", "0", "1", "0">>)}

JitterRows == {Row("slice_id", <<"x">>, <<"0", ".", "0", "0", "2">>)}

(* ---------------------- run_kpi_computation, by step ------------------- *)

\* a slip: the two directions spelled with a capital
directions_capital == <<"Uplink", "Downlink">>

\* a slip: the two directions in the other order
directions_swapped == <<"downlink", "uplink">>

\* line 216
directions == <<"uplink", "downlink">>

\* what one step of the loop body comes to: the exception that leaves
\* run_kpi_computation ("none": the step ends), the gauge writes it made, in
\* order, and the deriver call it made
Step(e, writes, r) == [exc |-> e, writes |-> writes, ret |-> r]

\* the deriver came to r and the lines after the call wrote w, or raised
Wrote(r, w) == Step(w.exc, IF w.exc = "none" THEN w.val ELSE <<>>, r)

\* lines 226-228 for one direction
throughput_step(snssai, direction, http) ==
  LET export(r) ==
        Wrote(r, Try(r, LAMBDA throughput_per_seid :
                   Try(items(throughput_per_seid), LAMBDA pairs :
                     Ok(Flatten([n \in DOMAIN pairs |->
                          export_to_prometheus(snssai, pairs[n][1], direction,
                                               pairs[n][2])])))))
  IN  export(get_slice_throughput_per_seid_and_direction(snssai, direction, http))

\* a slip: packet_loss_per_slice[snssai] read without the loop, a KeyError
\* when the query brought nothing
packet_loss_step_strict(snssai, direction, http) ==
  LET export(r) ==
        Wrote(r, Try(r, LAMBDA packet_loss_per_slice :
                   IF ~DictHas(packet_loss_per_slice, snssai) THEN Raise("KeyError")
                   ELSE Ok(export_packet_loss_to_prometheus(
                             snssai, direction, DictGet(packet_loss_per_slice, snssai)))))
  IN  export(get_slice_packet_loss(snssai, direction, http))

\* lines 232-234 for one direction
packet_loss_step(snssai, direction, http) ==
  LET export(r) ==
        Wrote(r, Try(r, LAMBDA packet_loss_per_slice :
                   Try(items(packet_loss_per_slice), LAMBDA pairs :
                     Ok(Flatten([n \in DOMAIN pairs |->
                          export_packet_loss_to_prometheus(pairs[n][1], direction,
                                                           pairs[n][2])])))))
  IN  export(get_slice_packet_loss(snssai, direction, http))

\* line 238: are the two dicts exported?
both_present(snssai, latency, jitter) == DictHas(latency, snssai) /\ DictHas(jitter, snssai)

\* a slip: each of the two gauges set when its own value is there
latency_jitter_export_each(snssai, latency, jitter) ==
  (IF DictHas(latency, snssai)
   THEN <<Write("slice_latency_seconds", <<snssai>>, DictGet(latency, snssai))>> ELSE <<>>)
  \o (IF DictHas(jitter, snssai)
      THEN <<Write("slice_jitter_seconds", <<snssai>>, DictGet(jitter, snssai))>> ELSE <<>>)

\* lines 238-239 on the pair get_slice_latency_and_jitter returned
latency_jitter_export(snssai, latency, jitter) ==
  IF both_present(snssai, latency, jitter)
  THEN export_latency_jitter_to_prometheus(snssai, DictGet(latency, snssai),
                                           DictGet(jitter, snssai))
  ELSE <<>>

\* get_slice_latency_and_jitter from line 158 on and lines 238-239, the
\* latency query having left latency_per_slice
jitter_step(snssai, latency, http) ==
  LET export(r) ==
        Wrote(r, Try(r, LAMBDA jitter : Ok(latency_jitter_export(snssai, latency, jitter))))
  IN  export(jitter_part(snssai, http))

\* lines 237-239
latency_jitter_step(snssai, httpLatency, httpJitter) ==
  LET export(r) ==
        Wrote(r, Try(r, LAMBDA pair : Ok(latency_jitter_export(snssai, pair[1], pair[2]))))
  IN  export(get_slice_latency_and_jitter(snssai, httpLatency, httpJitter))

(* ------------------------------- state -------------------------------- *)

VARIABLES
  MONARCH_THANOS_URL, \* line 21: the backend URL, None when the variable is unset
  pc,                 \* where main() is
  server,             \* has prom.start_http_server been called?
  active_snssais,     \* run_kpi_computation: the list of line 217
  snssai_i,           \* the position of `for snssai in active_snssais`
  direction_i,        \* the position of `for direction in directions`
  latency_per_slice,  \* get_slice_latency_and_jitter: the dict of line 141
  exc,                \* the exception main() caught in this cycle, or "none"
  registry,           \* the four gauges: gauge -> (labels -> value)
  issued,             \* history: the queries of this cycle, in order, each with
                      \* what query_prometheus gave back: "raised", "empty", "rows"
  fetched,            \* history: the rows those queries brought
  published,          \* history: the gauge writes of this cycle, in order
  data,               \* history: the non-empty results delivered so far
  call,               \* a function called on its own: the call
  ret                 \* and what it came to

vars ==
  <<MONARCH_THANOS_URL, pc, server, active_snssais, snssai_i, direction_i,
    latency_per_slice, exc, registry, issued, fetched, published, data, call, ret>>

DEFAULT_UPDATE_PERIOD == 1

UPDATE_PERIOD == DEFAULT_UPDATE_PERIOD

NoCall == [fn |-> "none"]

\* the process before main() runs, spent of the backend's results being gone
Start(spent) ==
  /\ MONARCH_THANOS_URL \in {None, Str(<<>>), Str(<<"h">>)}
  /\ pc = "main"
  /\ server = FALSE
  /\ active_snssais = <<>>
  /\ snssai_i = 0
  /\ direction_i = 0
  /\ latency_per_slice = Dict(<<>>)
  /\ exc = "none"
  /\ registry = EmptyRegistry
  /\ issued = <<>>
  /\ fetched = {}
  /\ published = <<>>
  /\ data = spent
  /\ call = NoCall
  /\ ret = NoCall

Init == Start(0)

\* what query_prometheus gave its caller: it raised, or returned no row, or rows
Outcome(results) ==
  IF results.exc # "none" THEN "raised"
  ELSE IF results.val.items = <<>> THEN "empty"
  ELSE "rows"

\* the rows a query brought, each with the query and its place in the cycle
Fetch(queries, results) ==
  IF queries # <<>> /\ HasRows(results)
  THEN {[query |-> queries[1], at |-> Len(issued) + 1, row |-> row] :
          row \in Range(results.val.items)}
  ELSE {}

\* the backend answers one query of the cycle: any failure, or rows while the
\* budget lasts
Answered(queries, results) ==
  /\ HasRows(results) => data < MaxData
  /\ data' = IF HasRows(results) THEN data + 1 ELSE data
  /\ issued' = issued \o [n \in DOMAIN queries |->
                            [query |-> queries[n], result |-> Outcome(results)]]
  /\ fetched' = fetched \cup Fetch(queries, results)

Answer(queries, http) == Answered(queries, query_prometheus(http))

\* a slip: the scrape server started before the URL is looked at
main_server_first ==
  /\ pc = "main"
  /\ server' = TRUE
  /\ pc' = IF MONARCH_THANOS_URL = None \/ MONARCH_THANOS_URL.s = <<>> THEN "exit" ELSE "discover"
  /\ UNCHANGED <<MONARCH_THANOS_URL, active_snssais, snssai_i, direction_i, latency_per_slice,
                 exc, registry, issued, fetched, published, data, call, ret>>

\* lines 182-192
main ==
  /\ pc = "main"
  /\ IF MONARCH_THANOS_URL = None \/ MONARCH_THANOS_URL.s = <<>>
     THEN pc' = "exit" /\ server' = server
     ELSE pc' = "discover" /\ server' = TRUE
  /\ UNCHANGED <<MONARCH_THANOS_URL, active_snssais, snssai_i, direction_i, latency_per_slice,
                 exc, registry, issued, fetched, published, data, call, ret>>

\* the exceptions the model raises: all are subclasses of Exception
Exceptions == {"KeyError", "IndexError", "ValueError", "TypeError", "AttributeError"}

\* a slip: the clause of line 197 written like those of query_prometheus
main_catches_some(e) == e \in Caught

\* `except Exception` (line 197): does it catch e?
main_catches(e) == e \in Exceptions

\* an exception leaves run_kpi_computation: line 197 catches it, line 198
\* logs it and main() is at its sleep; or it leaves main() and the process
\* ends
Raised(e) ==
  /\ pc' = IF main_catches(e) THEN "sleep" ELSE "crash"
  /\ exc' = e

\* lines 217-222
Discover ==
  /\ pc = "discover"
  /\ \E http \in Failures \cup Answers(ActiveRows, MaxSlices) :
       LET r == get_active_snssais(http)
       IN  /\ Answer(r.queries, http)
           /\ IF r.exc # "none"
              THEN Raised(r.exc) /\ UNCHANGED <<active_snssais, snssai_i, direction_i>>
              ELSE IF r.val.items = <<>>
              THEN pc' = "sleep" /\ UNCHANGED <<active_snssais, snssai_i, direction_i, exc>>
              ELSE /\ active_snssais' = r.val.items
                   /\ snssai_i' = 1
                   /\ direction_i' = 1
                   /\ pc' = "throughput"
                   /\ exc' = exc
  /\ UNCHANGED <<MONARCH_THANOS_URL, server, latency_per_slice, registry, published, call, ret>>

\* a step of the loop body ends: its writes reach the registry
Publish(step) ==
  /\ registry' = SetAll(registry, step.writes)
  /\ published' = published \o step.writes
  /\ exc' = exc

\* the end of a `for direction in directions` body
NextDirection(after) ==
  IF direction_i < Len(directions)
  THEN direction_i' = direction_i + 1 /\ pc' = pc
  ELSE direction_i' = 1 /\ pc' = after

\* lines 225-228, one direction
Throughput ==
  /\ pc = "throughput"
  /\ \E http \in Failures \cup Answers(ThroughputRows, MaxRows) :
       LET step == throughput_step(active_snssais[snssai_i], directions[direction_i], http)
       IN  /\ Answer(step.ret.queries, http)
           /\ IF step.exc # "none"
              THEN Raised(step.exc) /\ UNCHANGED <<direction_i, registry, published>>
              ELSE Publish(step) /\ NextDirection("packet_loss")
  /\ UNCHANGED <<MONARCH_THANOS_URL, server, active_snssais, snssai_i, latency_per_slice,
                 call, ret>>

\* lines 231-234, one direction
PacketLoss ==
  /\ pc = "packet_loss"
  /\ \E http \in Failures \cup Answers(PacketLossRows, MaxRows) :
       LET step == packet_loss_step(active_snssais[snssai_i], directions[direction_i], http)
       IN  /\ Answer(step.ret.queries, http)
           /\ IF step.exc # "none"
              THEN Raised(step.exc) /\ UNCHANGED <<direction_i, registry, published>>
              ELSE Publish(step) /\ NextDirection("latency")
  /\ UNCHANGED <<MONARCH_THANOS_URL, server, active_snssais, snssai_i, latency_per_slice,
                 call, ret>>

\* line 237, get_slice_latency_and_jitter up to line 156
Latency ==
  /\ pc = "latency"
  /\ \E http \in Failures \cup Answers(LatencyRows, MaxRows) :
       LET r == latency_part(active_snssais[snssai_i], http)
       IN  /\ Answer(r.queries, http)
           /\ IF r.exc # "none"
              THEN Raised(r.exc) /\ UNCHANGED latency_per_slice
              ELSE latency_per_slice' = r.val /\ pc' = "jitter" /\ exc' = exc
  /\ UNCHANGED <<MONARCH_THANOS_URL, server, active_snssais, snssai_i, direction_i,
                 registry, published, call, ret>>

\* the end of a `for snssai in active_snssais` body
NextSlice ==
  IF snssai_i < Len(active_snssais)
  THEN snssai_i' = snssai_i + 1 /\ direction_i' = 1 /\ pc' = "throughput"
  ELSE pc' = "sleep" /\ UNCHANGED <<snssai_i, direction_i>>

\* get_slice_latency_and_jitter from line 158 on, and lines 238-239
Jitter ==
  /\ pc = "jitter"
  /\ \E http \in Failures \cup Answers(JitterRows, MaxRows) :
       LET step == jitter_step(active_snssais[snssai_i], latency_per_slice, http)
       IN  /\ Answer(step.ret.queries, http)
           /\ IF step.exc # "none"
              THEN Raised(step.exc) /\ UNCHANGED <<snssai_i, direction_i, registry, published>>
              ELSE Publish(step) /\ NextSlice
  /\ latency_per_slice' = Dict(<<>>)
  /\ UNCHANGED <<MONARCH_THANOS_URL, server, active_snssais, call, ret>>

\* a slip: the gauges are cleared after a cycle that failed
Sleep_rollback ==
  /\ pc = "sleep"
  /\ pc' = "discover"
  /\ active_snssais' = <<>>
  /\ snssai_i' = 0
  /\ direction_i' = 0
  /\ latency_per_slice' = Dict(<<>>)
  /\ exc' = "none"
  /\ issued' = <<>>
  /\ fetched' = {}
  /\ published' = <<>>
  /\ registry' = IF exc # "none" THEN EmptyRegistry ELSE registry
  /\ UNCHANGED <<MONARCH_THANOS_URL, server, data, call, ret>>

\* line 199, and line 196 of the next iteration: the frame of the cycle that
\* ended is gone, and so is its history
Sleep ==
  /\ pc = "sleep"
  /\ pc' = IF UPDATE_PERIOD < 0 THEN "crash" ELSE "discover"
  /\ active_snssais' = <<>>
  /\ snssai_i' = 0
  /\ direction_i' = 0
  /\ latency_per_slice' = Dict(<<>>)
  /\ exc' = "none"
  /\ issued' = <<>>
  /\ fetched' = {}
  /\ published' = <<>>
  /\ UNCHANGED <<MONARCH_THANOS_URL, server, registry, data, call, ret>>

Next ==
  \/ main
  \/ Discover
  \/ Throughput
  \/ PacketLoss
  \/ Latency
  \/ Jitter
  \/ Sleep

Spec == Init /\ [][Next]_vars

\* main() is one sequential thread: a step that can be taken is taken (a
\* backend call that never returns is not a behaviour of the model)
FairSpec == Start(MaxData - LiveData) /\ [][Next]_vars /\ WF_vars(Next)

(* ---------------------- the functions on their own --------------------- *)

\* the rows a function called on its own may be given: well-formed ones (two
\* labels, the second twice with different values) and every malformed shape
CallRows(name) ==
  {Row(name, SliceA, <<"0">>), Row(name, SliceB, <<"0", ".", "2", "5">>),
   Row(name, SliceB, <<"8", "0", "0", "0">>), Row(name, SliceA, <<"N", "a", "N">>),
   Row(name, SliceA, <<"a", "b", "c">>), RowNoLabel, RowNoMetric, RowNoValue(name, SliceA),
   RowShortValue(name, SliceA), RowNullValue(name, SliceA), Str(<<"r">>)}

ProbeRows ==
  {Row("slice_id", SliceA, <<"0", ".", "0", "1", "0">>), Row("slice_id", SliceA, <<"0">>),
   RowNoValue("slice_id", SliceA)}

CallDirections == {"uplink", "downlink", "sideways", "Uplink"}

\* a slice identifier with two hyphens
SliceC == <<"1", "-", "0", "-", "1">>

CallSlices == {Str(SliceA), Str(SliceB), Str(SliceC)}

Calls ==
  {[fn |-> "query_prometheus", http |-> h] : h \in Failures \cup Answers(CallRows("seid"), MaxRows)}
    \cup {[fn |-> "get_active_snssais", http |-> h] :
            h \in Failures \cup Answers(CallRows("snssai"), MaxRows)}
    \cup {[fn |-> "throughput", snssai |-> s, direction |-> dir, http |-> h] :
            s \in CallSlices, dir \in CallDirections,
            h \in Failures \cup Answers(CallRows("seid"), MaxRows)}
    \cup {[fn |-> "packet_loss", snssai |-> s, direction |-> dir, http |-> h] :
            s \in CallSlices, dir \in CallDirections,
            h \in Failures \cup Answers(CallRows("instance"), MaxRows)}
    \cup {[fn |-> "latency_jitter", snssai |-> s, http |-> h, http2 |-> h2] :
            s \in CallSlices, h \in Failures \cup Answers(ProbeRows, MaxRows),
            h2 \in Failures \cup Answers(ProbeRows, MaxRows)}

CallInit ==
  /\ MONARCH_THANOS_URL = Str(<<"h">>)
  /\ pc = "call"
  /\ server = FALSE
  /\ active_snssais = <<>>
  /\ snssai_i = 0
  /\ direction_i = 0
  /\ latency_per_slice = Dict(<<>>)
  /\ exc = "none"
  /\ registry = EmptyRegistry
  /\ issued = <<>>
  /\ fetched = {}
  /\ published = <<>>
  /\ data = 0
  /\ call \in Calls
  /\ ret = NoCall

\* the call returns or raises; a deriver's writes (those of the lines of
\* run_kpi_computation that call it) reach the registry
Returns(r, writes) ==
  /\ pc' = "returned"
  /\ ret' = r
  /\ registry' = SetAll(registry, writes)
  /\ published' = writes
  /\ UNCHANGED <<MONARCH_THANOS_URL, server, active_snssais, snssai_i, direction_i,
                 latency_per_slice, exc, issued, fetched, data, call>>

CallQuery ==
  /\ pc = "call"
  /\ call.fn = "query_prometheus"
  /\ Returns(query_prometheus(call.http), <<>>)

CallActive ==
  /\ pc = "call"
  /\ call.fn = "get_active_snssais"
  /\ LET r == get_active_snssais(call.http)
     IN  Returns(Step(r.exc, <<>>, r), <<>>)

CallThroughput ==
  /\ pc = "call"
  /\ call.fn = "throughput"
  /\ LET step == throughput_step(call.snssai, call.direction, call.http)
     IN  Returns(step, step.writes)

CallPacketLoss ==
  /\ pc = "call"
  /\ call.fn = "packet_loss"
  /\ LET step == packet_loss_step(call.snssai, call.direction, call.http)
     IN  Returns(step, step.writes)

CallLatencyJitter ==
  /\ pc = "call"
  /\ call.fn = "latency_jitter"
  /\ LET step == latency_jitter_step(call.snssai, call.http, call.http2)
     IN  Returns(step, step.writes)

CallNext ==
  \/ CallQuery
  \/ CallActive
  \/ CallThroughput
  \/ CallPacketLoss
  \/ CallLatencyJitter

CallSpec == CallInit /\ [][CallNext]_vars

(* ------------------------------- claims ------------------------------- *)

Supported == {"uplink", "downlink"}

HasKey(v, key) == v.t = "dict" /\ \E n \in DOMAIN v.items : v.items[n][1] = key

\* the outcome brings no data.result: a transport failure, a body that is not
\* JSON, or JSON without that path
LacksResultPath(http) ==
  \/ http.err # "none"
  \/ http.body = NotJson
  \/ ~HasKey(http.body, "data")
  \/ ~HasKey(GetItem(http.body, "data").val, "result")

\* C2: query_prometheus never raises, and returns an empty sequence for every
\* outcome without data.result (transport failure, non-JSON body, JSON whose
\* top level or whose data member is not an object or lacks the key).
C2_QueryNeverRaises ==
  (pc = "returned" /\ call.fn = "query_prometheus") =>
    /\ ret.exc = "none"
    /\ LacksResultPath(call.http) => ret.val = List(<<>>)

Derivers == {"get_active_snssais", "throughput", "packet_loss", "latency_jitter"}

\* the call is a deriver's, for a supported direction, and each of its
\* queries returned a result to it (query_prometheus did not raise)
DeriverGotResults ==
  /\ pc = "returned"
  /\ call.fn \in Derivers
  /\ call.fn \in {"throughput", "packet_loss"} => call.direction \in Supported
  /\ query_prometheus(call.http).exc = "none"
  /\ call.fn = "latency_jitter" => query_prometheus(call.http2).exc = "none"

\* C3: whatever rows a query result holds, malformed ones included, the
\* deriver (or slice discovery) returns normally: no exception leaves it.
C3_LeafFailuresDoNotEscape == DeriverGotResults => ret.exc = "none"

\* C9: for a direction that is neither uplink nor downlink the throughput
\* deriver issues no query, does not raise and returns an empty mapping.
C9_ThroughputInvalidDirection ==
  (pc = "returned" /\ call.fn = "throughput" /\ call.direction \notin Supported) =>
    /\ ret.ret.queries = <<>>
    /\ ret.ret.exc = "none"
    /\ ret.ret.val = Dict(<<>>)

\* the rows that carry a number, with the number
Valued ==
  {[row |-> Row("instance", SliceA, <<"0">>), value |-> Num(0, 0)],
   [row |-> Row("instance", SliceB, <<"0", ".", "2", "5">>), value |-> Num(25, -2)],
   [row |-> Row("instance", SliceB, <<"8", "0", "0", "0">>), value |-> Num(8, 3)],
   [row |-> Row("instance", SliceA, <<"N", "a", "N">>), value |-> NaN]}

\* a packet-loss call for a supported direction whose query returned rows
PacketLossCalled ==
  /\ pc = "returned"
  /\ call.fn = "packet_loss"
  /\ call.direction \in Supported
  /\ query_prometheus(call.http).exc = "none"

\* C8: get_slice_packet_loss returns no entry exactly when the query yields
\* zero rows; with rows it returns the first row's value alone, keyed by the
\* slice asked for, and that value, 0 included, is what is published.
C8_PacketLossFirstRow ==
  PacketLossCalled =>
    LET rows == query_prometheus(call.http).val.items
        key == <<call.snssai, call.direction>>
    IN  /\ (ret.exc = "none" /\ ret.ret.val = Dict(<<>>)) <=> rows = <<>>
        /\ rows = <<>> => published = <<>>
        /\ \A x \in Valued :
             (rows # <<>> /\ rows[1] = x.row) =>
               /\ ret.exc = "none"
               /\ ret.ret.val = Dict(<< <<call.snssai, x.value>> >>)
               /\ published = <<Write("slice_packet_loss_ratio", key, x.value)>>
               /\ registry["slice_packet_loss_ratio"] = (key :> x.value)

\* two rows, the first with value 0: 0 is returned and published
C8_Witness ==
  /\ PacketLossCalled
  /\ query_prometheus(call.http).val.items =
       <<Row("instance", SliceA, <<"0">>), Row("instance", SliceB, <<"0", ".", "2", "5">>)>>
  /\ published = <<Write("slice_packet_loss_ratio", <<call.snssai, call.direction>>, Num(0, 0))>>


(* ---------------------- claims about the cycle ------------------------ *)

Collecting == {"discover", "throughput", "packet_loss", "latency", "jitter"}

\* C1: whatever happens in a cycle, a failure included, the cycle ends with
\* the scheduler Idle (asleep), and from Idle a later cycle starts: the loop
\* is never left.
C1_CyclesGoOn ==
  /\ [](pc \in Collecting => <>(pc = "sleep"))
  /\ [](pc = "sleep" => <>(pc = "discover"))

\* a cycle failed after it had published something, and the scheduler is Idle
C1_Witness == pc = "sleep" /\ exc \in Exceptions /\ published # <<>>

\* the cycle ran to the end of its loop
Completed == pc = "sleep" /\ exc = "none" /\ active_snssais # <<>>

\* the direction a throughput or packet-loss query is for
QueryDirection(q) ==
  CHOOSE dir \in Supported :
    direction_mapping[dir] = q.metric \/ direction_mapping_packets[dir] = q.metric

\* the slice the query at place n of the cycle is for: one discovery query,
\* then six queries a slice
SliceAt(n) == active_snssais[((n - 2) \div 6) + 1]

Writes(gauge, labels) ==
  {n \in DOMAIN published : published[n].gauge = gauge /\ published[n].labels = labels}

\* a packet-loss query for slice a returned nothing in this cycle
PacketLossEmpty(a) ==
  \E n \in DOMAIN issued :
    /\ issued[n].query.kpi = "packet_loss"
    /\ issued[n].query.label = a
    /\ issued[n].result = "empty"

\* every row this cycle fetched has its gauge written in this cycle
FetchedPublished ==
  \A f \in fetched :
    /\ f.query.kpi = "throughput" =>
         Writes("slice_throughput",
                <<f.query.label, RowLabel(f.row, "seid").val, QueryDirection(f.query)>>) # {}
    /\ f.query.kpi = "packet_loss" =>
         Writes("slice_packet_loss_ratio", <<f.query.label, QueryDirection(f.query)>>) # {}
    /\ (f.query.kpi = "latency" /\ \E g \in fetched : g.query.kpi = "jitter" /\ g.at = f.at + 1) =>
         /\ Writes("slice_latency_seconds", <<SliceAt(f.at)>>) # {}
         /\ Writes("slice_jitter_seconds", <<SliceAt(f.at)>>) # {}

\* C4: when a packet-loss query of slice a returns nothing, the cycle is not
\* aborted by it, it goes on to every other query of every slice, and what
\* those queries bring (a's throughput, a's latency and jitter, every KPI of
\* the other slices) is published in that cycle.
C4_EmptyPacketLossPreventsNothing ==
  \A a \in Range(active_snssais) :
    PacketLossEmpty(a) =>
      /\ exc # "none" =>
           ~(/\ issued[Len(issued)].query.kpi = "packet_loss"
             /\ issued[Len(issued)].result = "empty")
      /\ Completed =>
           /\ Len(issued) = 1 + 6 * Len(active_snssais)
           /\ FetchedPublished

\* two slices, the first without packet loss, its throughput and a gauge of
\* the second published
C4_Witness ==
  /\ Completed
  /\ Len(active_snssais) = 2
  /\ active_snssais[1] # active_snssais[2]
  /\ PacketLossEmpty(active_snssais[1])
  /\ \E n \in DOMAIN published :
       published[n].gauge = "slice_throughput" /\ published[n].labels[1] = active_snssais[1]
  /\ \E n \in DOMAIN published : published[n].labels[1] = active_snssais[2]

\* the latency query at place f.at and the jitter query right after it both
\* brought a row, for slice s
BothFetched(s, latency, jitter) ==
  \E f, g \in fetched :
    /\ f.query = latency_query(replace(s))
    /\ g.query = jitter_query(replace(s))
    /\ g.at = f.at + 1
    /\ RowValue(f.row).val = latency
    /\ RowValue(g.row).val = jitter

\* C5: the latency and the jitter gauge of a slice are written only together,
\* and only when the latency query and the jitter query of that slice both
\* brought a value in this cycle.
C5_LatencyJitterOnlyTogether ==
  \A n \in DOMAIN published :
    /\ published[n].gauge = "slice_latency_seconds" =>
         /\ n + 1 \in DOMAIN published
         /\ published[n + 1].gauge = "slice_jitter_seconds"
         /\ published[n + 1].labels = published[n].labels
         /\ BothFetched(published[n].labels[1], published[n].value, published[n + 1].value)
    /\ published[n].gauge = "slice_jitter_seconds" =>
         /\ n - 1 \in DOMAIN published
         /\ published[n - 1].gauge = "slice_latency_seconds"

\* a latency value came, the jitter query after it brought nothing, the cycle
\* went on, and no latency was published
C5_Witness ==
  /\ pc \in {"throughput", "sleep"}
  /\ exc = "none"
  /\ \E f \in fetched :
       /\ f.query.kpi = "latency"
       /\ f.at + 1 \in DOMAIN issued
       /\ issued[f.at + 1].query.kpi = "jitter"
       /\ issued[f.at + 1].result = "empty"
  /\ \A n \in DOMAIN published : published[n].gauge # "slice_latency_seconds"

Slices == {Str(SliceA), Str(SliceB)}

\* C6: no step removes a label combination from a gauge; and while the
\* cycle's discovery does not hold slice s, no query of the cycle is for s
\* and every gauge value labelled s stays as it is.
C6_RegistryOverwriteOnly ==
  [][/\ \A g \in Gauges : DOMAIN registry[g] \subseteq DOMAIN registry'[g]
     /\ \A s \in Slices :
          s \notin Range(active_snssais') =>
            /\ \A g \in Gauges : \A k \in DOMAIN registry[g] :
                 k[1] = s => registry'[g][k] = registry[g][k]
            /\ \A n \in DOMAIN issued' : issued'[n].query.label \notin {s, replace(s)}]_vars

\* a cycle for slice B alone has completed while a gauge of slice A, set in
\* an earlier cycle, is still there
C6_Witness ==
  /\ Completed
  /\ active_snssais = <<Str(SliceB)>>
  /\ \E k \in DOMAIN registry["slice_throughput"] : k[1] = Str(SliceA)

\* the writes of this cycle for the triple of a fetched throughput row
TripleWrites(f) ==
  Writes("slice_throughput",
         <<f.query.label, RowLabel(f.row, "seid").val, QueryDirection(f.query)>>)

ThroughputOnce ==
  /\ \A f \in fetched :
       f.query.kpi = "throughput" =>
         /\ Cardinality(TripleWrites(f)) = 1
         /\ \A n \in TripleWrites(f) : published[n].value = RowValue(f.row).val
  /\ \A n \in DOMAIN published :
       published[n].gauge = "slice_throughput" =>
         \E f \in fetched : f.query.kpi = "throughput" /\ n \in TripleWrites(f)

\* C7: in a cycle that completes, slice_throughput is set exactly once for
\* each (slice, endpoint, direction) of the throughput results, to the raw
\* value of the row, and for no other triple.
C7_ThroughputOncePerTriple == Completed => ThroughputOnce

\* the same, for the cycles whose discovery names no slice twice
C7_OnceWhenDiscoveryDistinct ==
  (Completed /\ Cardinality(Range(active_snssais)) = Len(active_snssais)) => ThroughputOnce

\* the write w carries what row f brought
FromRow(w, f) ==
  /\ RowValue(f.row).exc = "none"
  /\ w.value = RowValue(f.row).val
  /\ CASE w.gauge = "slice_throughput" ->
            /\ w.labels[3] \in Supported
            /\ f.query = throughput_query(w.labels[1], w.labels[3])
            /\ RowLabel(f.row, "seid") = Ok(w.labels[2])
       [] w.gauge = "slice_packet_loss_ratio" ->
            /\ w.labels[2] \in Supported
            /\ f.query = packet_loss_query(w.labels[1], w.labels[2])
       [] w.gauge = "slice_latency_seconds" -> f.query = latency_query(replace(w.labels[1]))
       [] w.gauge = "slice_jitter_seconds" -> f.query = jitter_query(replace(w.labels[1]))

\* C10: every gauge write of a cycle carries a slice of this cycle's
\* discovery, and an endpoint and a value that a row fetched in this cycle
\* for that slice brought.  (active_snssais, fetched and published hold what
\* the current cycle discovered, fetched and wrote, and nothing older.)
C10_WritesFromThisCycle ==
  \A n \in DOMAIN published :
    /\ published[n].labels[1] \in Range(active_snssais)
    /\ \E f \in fetched : FromRow(published[n], f)

\* a second cycle publishes for slice B while the registry still holds slice A
C10_Witness ==
  /\ published # <<>>
  /\ \A n \in DOMAIN published : published[n].labels[1] = Str(SliceB)
  /\ \E g \in Gauges : \E k \in DOMAIN registry[g] : k[1] = Str(SliceA)

(* ------------------------- claims C11 to C20 --------------------------- *)

\* a call of get_active_snssais that returned
ActiveReturned == pc = "returned" /\ call.fn = "get_active_snssais" /\ ret.exc = "none"

\* C11: get_active_snssais returns the distinct slices with activity: the
\* slice of a discovery row whose value is 0 is not returned, and no slice is
\* returned twice.
C11_ActiveDistinctNonZero ==
  ActiveReturned =>
    LET rows == query_prometheus(call.http).val.items
        returned == ret.ret.val.items
    IN  /\ \A n \in DOMAIN rows :
             RowValue(rows[n]) = Ok(Num(0, 0)) => RowLabel(rows[n], "snssai").val \notin Range(returned)
        /\ Cardinality(Range(returned)) = Len(returned)

\* the same without the rows of value 0: does the result still repeat a slice?
C11_DistinctAlone ==
  ActiveReturned => Cardinality(Range(ret.ret.val.items)) = Len(ret.ret.val.items)

\* no backend URL: the variable is unset, or set to nothing
UrlAbsent == MONARCH_THANOS_URL = None \/ MONARCH_THANOS_URL.s = <<>>

Stopped == {"exit", "crash"}

Sendings(q) == {n \in DOMAIN issued : issued[n].query = q}

\* the queries run_kpi_computation sends for the slice s, in order
SliceQueries(s) ==
  <<throughput_query(s, "uplink"), throughput_query(s, "downlink"),
    packet_loss_query(s, "uplink"), packet_loss_query(s, "downlink"),
    latency_query(replace(s)), jitter_query(replace(s))>>

\* C13: a cycle that completes has sent one discovery query and, for each
\* discovered slice, each of its six queries once, whatever came back, and
\* no other query.
C13_EachQueryOnce ==
  Completed =>
    /\ Cardinality(Sendings(active_query)) = 1
    /\ \A s \in Range(active_snssais) :
         \A k \in DOMAIN SliceQueries(s) : Cardinality(Sendings(SliceQueries(s)[k])) = 1
    /\ Len(issued) = 1 + 6 * Cardinality(Range(active_snssais))

\* what the code does: one discovery query, then the six queries of each
\* entry of the discovery list, in the order of the list
C13_OncePerListEntry ==
  Completed =>
    /\ Len(issued) = 1 + 6 * Len(active_snssais)
    /\ issued[1].query = active_query
    /\ \A i \in DOMAIN active_snssais :
         \A k \in 1..6 : issued[1 + 6 * (i - 1) + k].query = SliceQueries(active_snssais[i])[k]

\* the cycle is over and its discovery query brought no row: query_prometheus
\* returned nothing, or the query failed in a way it does not turn into nothing
DiscoveryBroughtNothing == pc = "sleep" /\ issued # <<>> /\ issued[1].result # "rows"

\* C14: when the discovery query brings nothing, because the result is empty
\* or because the query failed, the cycle ends normally after that one query:
\* no exception reaches main(), no other query is sent, no gauge is written.
C14_NothingDiscoveredEndsCycle ==
  DiscoveryBroughtNothing =>
    /\ exc = "none"
    /\ Len(issued) = 1
    /\ published = <<>>

\* the same for the cycles in which query_prometheus returned the empty list
C14_EmptyDiscoveryEndsCycle ==
  (DiscoveryBroughtNothing /\ issued[1].result = "empty") =>
    /\ exc = "none"
    /\ Len(issued) = 1
    /\ published = <<>>

\* the part of C14 that holds however the discovery query failed
C14_NoQueryNoWriteAfter == DiscoveryBroughtNothing => (Len(issued) = 1 /\ published = <<>>)

\* the query run_kpi_computation sends at place n of a cycle: the discovery
\* query, then the six queries of each slice in the order of the discovery
ExpectedQuery(n) ==
  IF n = 1 THEN active_query ELSE SliceQueries(SliceAt(n))[((n - 2) % 6) + 1]

InOrder == \A n \in DOMAIN issued : issued[n].query = ExpectedQuery(n)

\* C15: execution is sequential.  A cycle begins only from main()'s start or
\* from the sleep that follows the cycle before it, whose history is then
\* closed; a step sends at most one query, after the one before it returned;
\* and the queries of a cycle go slice after slice, each slice in the order
\* throughput uplink, throughput downlink, packet loss uplink, packet loss
\* downlink, latency, jitter.
C15_StrictlySequential ==
  [][/\ (pc' = "discover" /\ pc # "discover") =>
          (pc \in {"main", "sleep"} /\ issued' = <<>> /\ published' = <<>>)
     /\ pc \in Collecting =>
          \/ issued' = issued
          \/ Len(issued') = Len(issued) + 1 /\ SubSeq(issued', 1, Len(issued)) = issued
     /\ InOrder']_vars

\* the second slice of a cycle has had its first five queries answered
C15_Witness == pc = "jitter" /\ snssai_i = 2 /\ Len(issued) = 12 /\ InOrder

\* the label s with an underscore wherever s has a hyphen
Underscored(s, label) ==
  /\ label.t = "str"
  /\ Len(label.s) = Len(s.s)
  /\ \A n \in DOMAIN s.s : label.s[n] = (IF s.s[n] = "-" THEN "_" ELSE s.s[n])

LatencyJitterCalled == pc = "returned" /\ call.fn = "latency_jitter"

\* C16: get_slice_latency_and_jitter queries the probe metric under the slice
\* identifier with every hyphen turned into an underscore, the same label in
\* the latency and in the jitter query, and keys what it returns, and what is
\* published, by the identifier as it was given.
C16_ProbeLabelRewritten ==
  LatencyJitterCalled =>
    LET q == ret.ret.queries
    IN  /\ Len(q) \in {1, 2}
        /\ q[1].kpi = "latency" /\ Underscored(call.snssai, q[1].label)
        /\ Len(q) = 2 => (q[2].kpi = "jitter" /\ q[2].label = q[1].label)
        /\ ret.exc = "none" =>
             /\ Len(q) = 2
             /\ \A d \in Range(ret.ret.val) : \A n \in DOMAIN d.items : d.items[n][1] = call.snssai
             /\ \A n \in DOMAIN published : published[n].labels = <<call.snssai>>

\* a slice with two hyphens, latency and jitter both fetched and published
C16_Witness ==
  /\ LatencyJitterCalled
  /\ call.snssai = Str(SliceC)
  /\ ret.exc = "none"
  /\ Len(published) = 2

\* is the float v a number of the interval [0, 1]?
InUnitInterval(v) ==
  /\ v.k = "num"
  /\ v.m >= 0
  /\ IF v.e >= 0 THEN v.m * Pow10(v.e) <= 1 ELSE v.m <= Pow10(0 - v.e)

\* C17: whatever value the first row of the packet-loss result carries, the
\* value written to slice_packet_loss_ratio is a number of [0, 1].
C17_PacketLossInUnitInterval ==
  PacketLossCalled =>
    \A n \in DOMAIN published :
      published[n].gauge = "slice_packet_loss_ratio" => InUnitInterval(published[n].value)

\* the same for the first rows whose value is 0 or 0.25
C17_RatioRowsInUnitInterval ==
  (/\ PacketLossCalled
   /\ Truthy(query_prometheus(call.http).val)
   /\ query_prometheus(call.http).val.items[1] \in
        {Row("instance", SliceA, <<"0">>), Row("instance", SliceB, <<"0", ".", "2", "5">>)}) =>
    /\ published # <<>>
    /\ \A n \in DOMAIN published : InUnitInterval(published[n].value)

\* every write of the cycle is in the registry, unless a later write of the
\* cycle to the same label combination replaced it
KeptWrites ==
  \A n \in DOMAIN published :
    LET w == published[n]
    IN  /\ w.labels \in DOMAIN registry[w.gauge]
        /\ (\A m \in (n + 1)..Len(published) :
              ~(published[m].gauge = w.gauge /\ published[m].labels = w.labels)) =>
             registry[w.gauge][w.labels] = w.value

\* C18: a cycle aborted by a failure is neither rolled back nor continued.
\* The step that fails sends its query, writes nothing and ends the cycle;
\* the writes the cycle made before are in the registry and stay there; and
\* the next thing main() does is to begin the next cycle.
C18_AbortedCycleNoRollbackNoContinuation ==
  [][/\ (exc = "none" /\ exc' # "none") =>
          /\ pc' = "sleep"
          /\ Len(issued') = Len(issued) + 1
          /\ published' = published
          /\ registry' = registry
     /\ exc' # "none" => KeptWrites'
     /\ exc # "none" =>
          /\ pc = "sleep" /\ pc' = "discover"
          /\ issued' = <<>> /\ published' = <<>>
          /\ registry' = registry]_vars

\* a cycle failed in its first slice after it had written gauges, a second
\* slice being left unprocessed
C18_Witness ==
  /\ pc = "sleep" /\ exc # "none"
  /\ published # <<>>
  /\ snssai_i = 1 /\ Len(active_snssais) = 2
  /\ KeptWrites

\* the slices that hold a value in the gauge
Labelled(gauge) == {k[1] : k \in DOMAIN registry[gauge]}

\* C19: whenever main() is between two cycles, the slices that hold a value
\* in slice_latency_seconds are those that hold one in slice_jitter_seconds.
C19_LatencyJitterSameSlices ==
  pc = "sleep" => Labelled("slice_latency_seconds") = Labelled("slice_jitter_seconds")

\* after a cycle that wrote nothing, both gauges hold the value an earlier
\* cycle gave slice A
C19_Witness ==
  /\ pc = "sleep"
  /\ published = <<>>
  /\ Labelled("slice_latency_seconds") = {Str(SliceA)}
  /\ Labelled("slice_jitter_seconds") = {Str(SliceA)}

\* C20: the direction label of every slice_throughput and
\* slice_packet_loss_ratio entry is uplink or downlink, and the scheduler never
\* takes a deriver into its unsupported-direction branch: the direction it is
\* about to pass is a supported one, every step has sent its query, and the
\* AttributeError that branch ends in is never raised.
C20_DirectionsSupported ==
  /\ \A k \in DOMAIN registry["slice_throughput"] : k[3] \in Supported
  /\ \A k \in DOMAIN registry["slice_packet_loss_ratio"] : k[2] \in Supported
  /\ pc \in {"throughput", "packet_loss"} => directions[direction_i] \in Supported
  /\ \A n \in DOMAIN issued :
       issued[n].query.kpi \in {"throughput", "packet_loss"} =>
         issued[n].query.metric \in
           Range(direction_mapping) \cup Range(direction_mapping_packets)
  /\ exc # "AttributeError"

\* throughput is in the registry for both directions, packet loss for one
C20_Witness ==
  /\ {k[3] : k \in DOMAIN registry["slice_throughput"]} = Supported
  /\ registry["slice_packet_loss_ratio"] # <<>>

====
